---------------------------- MODULE Spec2Model ----------------------------
(***************************************************************************)
(* A model of cicacica/unique2net: the enumeration of two-qubit gate       *)
(* networks up to the DiVincenzo-Smolin criteria.                          *)
(*                                                                         *)
(*   Spec      unique2net.py: unique2net / list_non_iso_graphs, one call   *)
(*             after another on the same output directory, so that a call  *)
(*             may resume from the edges.json an earlier call stored.      *)
(*   SpecIso   GraphQNet.py: GraphQNet.is_isomorphic_to on two networks.   *)
(*   SpecElim  gates_elimination.py: get_unique_2gates_networks, one loop  *)
(*             iteration of an elimination per step.                       *)
(*   SpecRecord  Spec started with the edges.json of unique2net(3, 2) on   *)
(*             disk and any number of qubits.                              *)
(*   SpecPool  Spec with the three Pool.map rounds taken apart into the    *)
(*             steps of the worker processes.                              *)
(*   SpecGQN   GraphQNet.py: one instance, set_netgates, add_ordered_edge. *)
(*   SpecRange GraphQNet.py: the constructor on gates beyond nqubit.       *)
(*   SpecShuffle, SpecOrbit, SpecConjugation, SpecSetNet, SpecRuns         *)
(*             the functions on networks, one call each.                   *)
(*   SpecValid __iseqiv_occurrence on a network and on its equivalents.    *)
(*                                                                         *)
(* Conventions.  A network is a sequence of gates, a gate an integer with  *)
(* two set bits (LSB convention).  Bit positions and qubits count from 0,  *)
(* sequences from 1.  Python's False, where the code stores it in a list   *)
(* of networks, is the empty sequence: both are falsy, and the one empty   *)
(* network, that of length 0, ends eliminate3 with an IndexError before    *)
(* any entry is set to False.  A networkx MultiGraph is the sequence of    *)
(* its edges in the order they were added; nodes exist from the moment an  *)
(* edge names them.                                                        *)
(***************************************************************************)
EXTENDS Integers, Sequences, FiniteSets, TLC

(***************************************************************************)
(* Bounds of the model.                                                    *)
(***************************************************************************)
\* nqubit + net_depth of a call of unique2net never exceeds MaxSize
MaxSize == 7

(***************************************************************************)
(* Generic helpers on sequences.                                           *)
(***************************************************************************)
Range(s) == {s[i] : i \in DOMAIN s}

\* ss[i] \o ... \o ss[n]
RECURSIVE FlattenFrom(_, _, _)
FlattenFrom(ss, i, n) == IF i > n THEN <<>> ELSE ss[i] \o FlattenFrom(ss, i + 1, n)

Flatten(ss) == FlattenFrom(ss, 1, Len(ss))

Reverse(s) == [i \in 1..Len(s) |-> s[Len(s) + 1 - i]]

RemoveAt(s, i) == [k \in 1..(Len(s) - 1) |-> IF k < i THEN s[k] ELSE s[k + 1]]

\* the first occurrences of the elements of s, in order
RECURSIVE Dedup(_)
Dedup(s) ==
    IF Len(s) = 0 THEN <<>>
    ELSE LET front == Dedup(SubSeq(s, 1, Len(s) - 1))
             last  == s[Len(s)]
         IN  IF last \in Range(front) THEN front ELSE Append(front, last)

\* Python's range(n) as a sequence
range(n) == [i \in 1..n |-> i - 1]

\* Python truthiness of a list entry that is a network or False
Truthy(x) == Len(x) > 0
False == <<>>

(***************************************************************************)
(* itertools.permutations(s) and itertools.combinations(range(n), 2), in   *)
(* the order itertools yields them (lexicographic in the positions).       *)
(***************************************************************************)
PrefixAll(x, rest) == [k \in 1..Len(rest) |-> <<x>> \o rest[k]]

RECURSIVE permutations(_)
permutations(s) ==
    IF Len(s) = 0 THEN << <<>> >>
    ELSE FlattenFrom([i \in 1..Len(s) |-> PrefixAll(s[i], permutations(RemoveAt(s, i)))],
                     1, Len(s))

combinations2(n) ==
    FlattenFrom([a \in 1..n |-> [k \in 1..(n - a) |-> <<a - 1, a - 1 + k>>]], 1, n)

(***************************************************************************)
(* Bitwise operations, LSB convention (unique2net.py, GraphQNet.bitop,     *)
(* gates_elimination.py hold the same code).                               *)
(***************************************************************************)
RECURSIVE Pow2(_)
Pow2(k) == IF k = 0 THEN 1 ELSE 2 * Pow2(k - 1)

\* len(bin(num)) - 2: the number of binary digits of num (1 for num = 0)
RECURSIVE BitLength(_)
BitLength(num) == IF num < 2 THEN 1 ELSE 1 + BitLength(num \div 2)

\* (num & (1 << k)) >> k
getbit(num, k) == (num \div Pow2(k)) % 2

\* a ^ b and a | b on the bits 0..w-1
RECURSIVE BitXor(_, _)
BitXor(a, b) ==
    IF a = 0 /\ b = 0 THEN 0
    ELSE (((a % 2) + (b % 2)) % 2) + 2 * BitXor(a \div 2, b \div 2)

RECURSIVE BitOr(_, _)
BitOr(a, b) ==
    IF a = 0 /\ b = 0 THEN 0
    ELSE (IF (a % 2) + (b % 2) > 0 THEN 1 ELSE 0) + 2 * BitOr(a \div 2, b \div 2)

swapbits(p1, p2, num) ==
    LET b1   == getbit(num, p1)
        b2   == getbit(num, p2)
        xor  == BitXor(b1, b2)
        mask == BitOr(xor * Pow2(p1), xor * Pow2(p2))
    IN  BitXor(num, mask)

get_pos_ones(num) ==
    LET max_len == BitLength(num)
    IN  SelectSeq(range(max_len), LAMBDA n : getbit(num, n) = 1)

RECURSIVE shuffle_loop(_, _, _)
shuffle_loop(num, permutation, i) ==
    IF i = 0 THEN 0
    ELSE BitOr(shuffle_loop(num, permutation, i - 1),
               getbit(num, permutation[i]) * Pow2(i - 1))

\* bit i of the result is bit permutation[i] of num
shuffle_bits(num, permutation) == shuffle_loop(num, permutation, Len(permutation))

(***************************************************************************)
(* Equivalent networks (unique2net.py).                                    *)
(***************************************************************************)
equiv_time_reversal(gate_net) == Reverse(gate_net)

\* equiv_bit_permutations without result.remove(gate_net)
equiv_bit_permutations_with_self(gate_net, nq) ==
    {[i \in 1..Len(gate_net) |-> shuffle_bits(gate_net[i], p)] :
        p \in Range(permutations(range(nq)))}

equiv_bit_permutations(gate_net, nq) ==
    {[i \in 1..Len(gate_net) |-> shuffle_bits(gate_net[i], p)] :
        p \in Range(permutations(range(nq)))} \ {gate_net}

\* position j (1-based) is an interior position with equal neighbours
Sandwiched(gate_net, j) ==
    /\ 1 < j /\ j < Len(gate_net)
    /\ gate_net[j - 1] = gate_net[j + 1]

\* the neighbour is written in place of the swapped gate
SwappedAt_with_neighbour(gate_net, j) == [gate_net EXCEPT ![j] = gate_net[j - 1]]

SwappedAt(gate_net, j) ==
    LET poss == get_pos_ones(gate_net[j - 1])
    IN  [gate_net EXCEPT ![j] = swapbits(poss[1], poss[2], gate_net[j])]

\* equiv_conjugation_by_swapping without the test tuple(mnet) != gate_net
equiv_conjugation_keeping_self(gate_net) ==
    {SwappedAt(gate_net, j) : j \in {k \in 1..Len(gate_net) : Sandwiched(gate_net, k)}}

equiv_conjugation_by_swapping(gate_net) ==
    {SwappedAt(gate_net, j) : j \in {k \in 1..Len(gate_net) : Sandwiched(gate_net, k)}}
        \ {gate_net}

(***************************************************************************)
(* networkx.MultiGraph, as far as unique2net.py uses it.  G is the         *)
(* sequence of the edges <<u, v>> in the order add_edge received them.     *)
(***************************************************************************)
\* the nodes in the order they were added (an edge adds u, then v)
NodeSeq(G) == Dedup(Flatten(G))

Other(e, n) == IF e[1] = n THEN e[2] ELSE e[1]

\* the neighbours of n in the order they became neighbours (the keys of adj[n])
NbrSeq(G, n) ==
    LET touching == SelectSeq(G, LAMBDA e : e[1] = n \/ e[2] = n)
    IN  Dedup([i \in 1..Len(touching) |-> Other(touching[i], n)])

\* the number of parallel edges between a and b
Mult(G, a, b) == Cardinality({i \in DOMAIN G : {G[i][1], G[i][2]} = {a, b}})

IndexOf(s, x) == CHOOSE i \in DOMAIN s : s[i] = x

\* G.edges(): node by node, neighbour by neighbour, skipping the nodes seen
edges(G) ==
    LET ns == NodeSeq(G)
    IN  Flatten([k \in 1..Len(ns) |->
            LET nbrs == NbrSeq(G, ns[k])
            IN  Flatten([m \in 1..Len(nbrs) |->
                    IF IndexOf(ns, nbrs[m]) < k THEN <<>>
                    ELSE [c \in 1..Mult(G, ns[k], nbrs[m]) |-> <<ns[k], nbrs[m]>>]])])

\* G.copy() followed by add_edge(u, v): copying keeps the node order and, for
\* every node, the order of the neighbours that follow it
add_edge(G, cphase) == Append(G, cphase)

\* nx.MultiGraph(list of edges)
MultiGraph(edge_list) == edge_list

\* a test that compares the numbers of nodes and of edges only
is_isomorphic_by_size(G1, G2) ==
    /\ Len(NodeSeq(G1)) = Len(NodeSeq(G2))
    /\ Len(G1) = Len(G2)

\* nx.is_isomorphic(G1, G2) without edge_match: a bijection of the nodes that
\* keeps the number of parallel edges between every two nodes
is_isomorphic(G1, G2) ==
    LET n1 == NodeSeq(G1)
        n2 == NodeSeq(G2)
    IN  /\ Len(n1) = Len(n2)
        /\ Len(G1) = Len(G2)
        /\ \E p \in Range(permutations(n2)) :
              \A a, b \in 1..Len(n1) :
                  a < b => Mult(G1, n1[a], n1[b]) = Mult(G2, p[a], p[b])

(***************************************************************************)
(* Graph helpers of unique2net.py.                                         *)
(***************************************************************************)
is_isomorphic_to(G_test, G_list) ==
    \E i \in DOMAIN G_list : is_isomorphic(G_list[i], G_test)

\* a variant of __more_three_multiedges that lets four parallel edges pass
more_four_multiedges(G) ==
    LET L == edges(G)
    IN  \E i \in DOMAIN L : Cardinality({j \in DOMAIN L : L[j] = L[i]}) > 4

\* __more_three_multiedges: some edge of G.edges() occurs more than 3 times
more_three_multiedges(G) ==
    LET L == edges(G)
    IN  \E i \in DOMAIN L : Cardinality({j \in DOMAIN L : L[j] = L[i]}) > 3

edges_to_net(edge_list) ==
    [i \in 1..Len(edge_list) |-> Pow2(edge_list[i][1]) + Pow2(edge_list[i][2])]

net_to_graph(network) ==
    MultiGraph([i \in 1..Len(network) |-> get_pos_ones(network[i])])

\* the double loop: GL[i] becomes False when a later GL[j] shares a permuted
\* image with it (the inner loop only reads entries after i, none of which is
\* False yet); equiv[k] is the set the code computes for GL[k] at a comparison
uperm_mark(GL, equiv) ==
    [i \in 1..Len(GL) |->
        IF \E j \in (i + 1)..Len(GL) : equiv[i] \cap equiv[j] # {}
        THEN False ELSE GL[i]]

edges_to_nets_uperm(G, nq) ==
    LET net == edges_to_net(G)
        GL  == permutations(net)
    IN  SelectSeq(uperm_mark(GL, SubSeq([k \in 1..Len(GL) |->
                                 equiv_bit_permutations(GL[k], nq)], 1, Len(GL))),
                  Truthy)

RECURSIVE occurrence_loop(_, _, _, _)
occurrence_loop(net, k, count, gate) ==
    IF k > Len(net) THEN FALSE
    ELSE LET c == IF net[k] = gate THEN count + 1 ELSE 1
         IN  IF c = 4 THEN TRUE ELSE occurrence_loop(net, k + 1, c, net[k])

\* __iseqiv_occurrence with the first gate left out of the count
iseqiv_occurrence_after_first(net) == occurrence_loop(net, 2, 0, net[1])

iseqiv_occurrence(net) == occurrence_loop(net, 1, 0, net[1])

is_equiv_iso_conj(net, non_iso_graphs) ==
    LET G_test  == net_to_graph(net)
        answers == Cardinality({i \in DOMAIN non_iso_graphs :
                                  is_isomorphic(non_iso_graphs[i], G_test)})
    IN  answers > 2

(***************************************************************************)
(* unique2net.py: the state of a call of unique2net(nqubit, net_depth).    *)
(***************************************************************************)
VARIABLES
    nqubit,                 \* the number of qubits of every call of the run
    net_depth,              \* the requested depth of the current call
    path_json,              \* 0 (False), or d: out-<n>qubit-depth<d>/edges.json
    ds_time_reversal,       \* keyword option of the call
    ds_conjugation_by_swap, \* keyword option of the call
    pc,                     \* the position of the call
    err,                    \* the exception that ended the call, or "none"
    edges_json,             \* the edges.json the latest storing call left
    start_depth,            \* list_non_iso_graphs: first depth of the loop
    depth,                  \* list_non_iso_graphs: loop variable, 0 = unbound
    GNIsom,                 \* list_non_iso_graphs: depth -> accepted graphs
    gi,                     \* index of G_old in GNIsom[depth-1]
    ci,                     \* index of cphase in cphases
    LNIG,                   \* what list_non_iso_graphs returned
    LNIG_type,              \* "MultiGraph" or "list": the type of its entries
    Nets,                   \* unique2net: the networks
    nets_conj,              \* unique2net: <<index, swap-conjugates>> pairs
    toel                    \* unique2net: indices to eliminate, -1 = False

VARIABLES
    gqn_self,               \* GraphQNet.py: the instance is_isomorphic_to is called on
    gqn_other,              \* GraphQNet.py: its argument GQN
    answer                  \* GraphQNet.py: what is_isomorphic_to returned

VARIABLES
    network_length,         \* gates_elimination.py: argument of the call
    L,                      \* get_unique_2gates_networks: the list L
    L_first,                \* L when "second iteration" is printed
    stdout,                 \* the lengths print(len(L)) wrote
    iteration,              \* 1 or 2: which run of the four eliminations
    i_swap,                 \* eliminate_relabelling: index of swap in lswaps
    i_net                   \* the elimination running: index of net in gate_list

VARIABLES
    call,                   \* a function called on its own: its name and arguments
    result                  \* what that call returned

VARIABLES
    ncpu,                   \* unique2net: opt['ncpu'], the processes of each Pool
    tasks,                  \* Pool.map: the arguments, one task each; <<>> = no round
    next_task,              \* Pool.map: the next task the queue hands out
    running,                \* Pool.map: the tasks a worker process is computing
    results                 \* Pool.map: task index -> what its worker sent back

gqn_vars == <<gqn_self, gqn_other, answer>>

pool_vars == <<ncpu, tasks, next_task, running, results>>

fn_vars == <<call, result>>

ge_vars == <<network_length, L, L_first, stdout, iteration, i_swap, i_net>>

u2n_vars == <<net_depth, path_json, ds_time_reversal, ds_conjugation_by_swap,
              edges_json, start_depth, depth, GNIsom, gi, ci, LNIG,
              LNIG_type, Nets, nets_conj, toel>>

vars == <<nqubit, pc, err, u2n_vars, gqn_vars, ge_vars, fn_vars, pool_vars>>

cphases == combinations2(nqubit)

NoFile == [saved |-> FALSE, depth |-> 0, list_edges |-> <<>>]

EmptyGNIsom == [d \in 1..MaxSize |-> <<>>]

locals == <<start_depth, depth, GNIsom, gi, ci, LNIG, LNIG_type, Nets, nets_conj, toel>>

NoGraphQNet == [nqubit |-> 0, netgates |-> <<>>, depth |-> 0, graph |-> <<>>]

\* no GraphQNet instance exists
gqn_idle ==
    /\ gqn_self = NoGraphQNet
    /\ gqn_other = NoGraphQNet
    /\ answer = "none"

\* no Pool.map is under way
pool_closed ==
    /\ tasks = <<>>
    /\ next_task = 0
    /\ running = {}
    /\ results = <<>>

\* no function has been called on its own
fn_idle ==
    /\ call = [fn |-> "none"]
    /\ result = [fn |-> "none"]

\* get_unique_2gates_networks has not been called
ge_idle ==
    /\ network_length = 0
    /\ L = <<>>
    /\ L_first = <<>>
    /\ stdout = <<>>
    /\ iteration = 0
    /\ i_swap = 0
    /\ i_net = 0

\* unique2net has not been called
u2n_idle ==
    /\ net_depth = 0
    /\ path_json = 0
    /\ ds_time_reversal = FALSE
    /\ ds_conjugation_by_swap = TRUE
    /\ edges_json = NoFile
    /\ start_depth = 0
    /\ depth = 0
    /\ GNIsom = EmptyGNIsom
    /\ gi = 0
    /\ ci = 0
    /\ LNIG = <<>>
    /\ LNIG_type = "none"
    /\ Nets = <<>>
    /\ nets_conj = <<>>
    /\ toel = <<>>

Init ==
    /\ nqubit \in 1..(MaxSize - 1)
    /\ pc = "idle"
    /\ err = "none"
    /\ u2n_idle
    /\ gqn_idle
    /\ ge_idle
    /\ fn_idle
    /\ ncpu = 1
    /\ pool_closed

\* unique2net(nqubit, d, path_json=..., ds_time_reversal=..., ...) is called:
\* the options are stored, none of the two ds_ options is read again
Call(d, pj, tr, cs) ==
    /\ pc \in {"idle", "done", "error"}
    /\ nqubit + d <= MaxSize
    /\ pj # 0 => (edges_json.saved /\ pj = edges_json.depth)
    /\ net_depth' = d
    /\ path_json' = pj
    /\ ds_time_reversal' = tr
    /\ ds_conjugation_by_swap' = cs
    /\ pc' = "list_non_iso_graphs"
    /\ err' = "none"
    /\ start_depth' = 0
    /\ depth' = 0
    /\ GNIsom' = EmptyGNIsom
    /\ gi' = 0
    /\ ci' = 0
    /\ LNIG' = <<>>
    /\ LNIG_type' = "none"
    /\ Nets' = <<>>
    /\ nets_conj' = <<>>
    /\ toel' = <<>>
    /\ UNCHANGED <<gqn_vars, ge_vars, fn_vars, nqubit, edges_json, pool_vars>>

Raise(e) ==
    /\ pc' = "error"
    /\ err' = e

\* list_non_iso_graphs up to the loop: load the record or start from one edge
Loading ==
    /\ pc = "list_non_iso_graphs"
    /\ IF path_json # 0
       THEN LET list_edges == edges_json.list_edges
            IN  IF Len(list_edges) = 0
                THEN /\ Raise("IndexError")
                     /\ UNCHANGED locals
                ELSE IF Len(list_edges[1]) + 1 > net_depth
                THEN \* nothing to do here: the loaded lists are returned
                     /\ start_depth' = Len(list_edges[1]) + 1
                     /\ LNIG' = list_edges
                     /\ LNIG_type' = "list"
                     /\ pc' = "ordering"
                     /\ UNCHANGED <<err, depth, GNIsom, gi, ci, Nets, nets_conj, toel>>
                ELSE /\ start_depth' = Len(list_edges[1]) + 1
                     /\ GNIsom' = [GNIsom EXCEPT ![Len(list_edges[1])] =
                                     [i \in 1..Len(list_edges) |-> MultiGraph(list_edges[i])]]
                     /\ pc' = "for_depth"
                     /\ UNCHANGED <<err, depth, gi, ci, LNIG, LNIG_type, Nets, nets_conj, toel>>
       ELSE IF Len(cphases) = 0
            THEN /\ Raise("IndexError")
                 /\ UNCHANGED locals
            ELSE /\ GNIsom' = [GNIsom EXCEPT ![1] = <<MultiGraph(<<cphases[1]>>)>>]
                 /\ start_depth' = 2
                 /\ pc' = "for_depth"
                 /\ UNCHANGED <<err, depth, gi, ci, LNIG, LNIG_type, Nets, nets_conj, toel>>
    /\ UNCHANGED <<gqn_vars, ge_vars, fn_vars, nqubit, net_depth, path_json, ds_time_reversal,
                   ds_conjugation_by_swap, edges_json, pool_vars>>

\* for depth in range(start_depth, net_depth+1): the next value, if any
ForDepth ==
    /\ pc = "for_depth"
    /\ LET next == IF depth = 0 THEN start_depth ELSE depth + 1
       IN  IF next <= net_depth
           THEN /\ depth' = next
                /\ GNIsom' = [GNIsom EXCEPT ![next] = <<>>]
                /\ gi' = 1
                /\ ci' = 1
                /\ pc' = "for_G_old"
           ELSE /\ pc' = "storing"
                /\ UNCHANGED <<depth, GNIsom, gi, ci>>
    /\ UNCHANGED <<gqn_vars, ge_vars, fn_vars, nqubit, net_depth, path_json, ds_time_reversal,
                   ds_conjugation_by_swap, err, edges_json, start_depth,
                   LNIG, LNIG_type, Nets, nets_conj, toel, pool_vars>>

\* the body of the two inner loops: G_cand is appended to the accepted graphs
\* unless it has more than three parallel edges or is isomorphic to one of them
try_candidate(accepted, G_old, cphase) ==
    LET G_cand == add_edge(G_old, cphase)
    IN  IF ~ more_three_multiedges(G_cand)
        THEN IF ~ is_isomorphic_to(G_cand, accepted)
             THEN Append(accepted, G_cand)
             ELSE accepted
        ELSE accepted

\* one candidate: G_old = GNIsom[depth-1][gi] extended by cphases[ci]
ForCandidate ==
    /\ pc = "for_G_old"
    /\ IF gi > Len(GNIsom[depth - 1]) \/ Len(cphases) = 0
       THEN /\ pc' = "for_depth"
            /\ UNCHANGED <<GNIsom, gi, ci>>
       ELSE LET G_old == GNIsom[depth - 1][gi]
            IN  /\ GNIsom' = [GNIsom EXCEPT
                                ![depth] = try_candidate(@, G_old, cphases[ci])]
                /\ IF ci < Len(cphases)
                   THEN ci' = ci + 1 /\ gi' = gi
                   ELSE ci' = 1 /\ gi' = gi + 1
                /\ pc' = "for_G_old"
    /\ UNCHANGED <<gqn_vars, ge_vars, fn_vars, nqubit, net_depth, path_json, ds_time_reversal,
                   ds_conjugation_by_swap, err, edges_json, start_depth, depth,
                   LNIG, LNIG_type, Nets, nets_conj, toel, pool_vars>>

\* json.dump([list(G.edges()) for G in LNIG]) into <dirpath>/edges.json
dump_edges(graphs) == [i \in 1..Len(graphs) |-> edges(graphs[i])]

\* storing stuff, and the return of list_non_iso_graphs
Storing ==
    /\ pc = "storing"
    /\ IF depth = 0
       THEN \* the loop never ran: depth is not bound
            /\ Raise("UnboundLocalError")
            /\ UNCHANGED <<edges_json, LNIG, LNIG_type>>
       ELSE /\ LNIG' = GNIsom[depth]
            /\ LNIG_type' = "MultiGraph"
            /\ edges_json' = [saved |-> TRUE, depth |-> net_depth,
                              list_edges |-> dump_edges(GNIsom[depth])]
            /\ pc' = "ordering"
            /\ err' = err
    /\ UNCHANGED <<gqn_vars, ge_vars, fn_vars, nqubit, net_depth, path_json, ds_time_reversal,
                   ds_conjugation_by_swap, start_depth, depth, GNIsom, gi, ci,
                   Nets, nets_conj, toel, pool_vars>>

(***************************************************************************)
(* unique2net after list_non_iso_graphs returned.  Pool.map(f, args)       *)
(* returns [f(a) for a in args] in the order of args.                      *)
(***************************************************************************)
\* __net_equiv_conj(net, i): the dict {i: netsc}; an empty nets stands for the
\* False it returns when net has no swap-conjugate
net_equiv_conj(net, i) == [key |-> i, nets |-> equiv_conjugation_by_swapping(net)]

\* __toel_conj(conj_dnets, LNIG): the key, or False (-1)
toel_conj(conj_dnets, graphs) ==
    IF \E net \in conj_dnets.nets : is_equiv_iso_conj(net, graphs)
    THEN conj_dnets.key
    ELSE -1

\* the three Pool.map rounds of unique2net as functions of their inputs
ordering_round(graphs, nq) ==
    Flatten([i \in 1..Len(graphs) |-> edges_to_nets_uperm(edges(graphs[i]), nq)])

conjugates_round(nets) ==
    SelectSeq([i \in 1..Len(nets) |-> net_equiv_conj(nets[i], i - 1)],
              LAMBDA x : x.nets # {})

eliminate_round(dnets, graphs) ==
    [k \in 1..Len(dnets) |-> toel_conj(dnets[k], graphs)]

\* apply ordering: one task per graph of LNIG, on G.edges()
OrderingRound ==
    /\ pc = "ordering"
    /\ IF LNIG_type = "list" /\ Len(LNIG) > 0
       THEN \* a list of edges has no attribute 'edges'
            /\ Raise("AttributeError")
            /\ UNCHANGED Nets
       ELSE /\ Nets' = ordering_round(LNIG, nqubit)
            /\ pc' = "conjugates"
            /\ err' = err
    /\ UNCHANGED <<gqn_vars, ge_vars, fn_vars, nqubit, net_depth, path_json, ds_time_reversal,
                   ds_conjugation_by_swap, edges_json, start_depth, depth, GNIsom,
                   gi, ci, LNIG, LNIG_type, nets_conj, toel, pool_vars>>

\* get ones that have equivalences in conjugation by swap (indices from 0)
ConjugatesRound ==
    /\ pc = "conjugates"
    /\ nets_conj' = conjugates_round(Nets)
    /\ pc' = "eliminate"
    /\ UNCHANGED <<gqn_vars, ge_vars, fn_vars, nqubit, net_depth, path_json, ds_time_reversal,
                   ds_conjugation_by_swap, err, edges_json, start_depth, depth,
                   GNIsom, gi, ci, LNIG, LNIG_type, Nets, toel, pool_vars>>

\* then, eliminate: one task per entry of nets_conj
EliminateRound ==
    /\ pc = "eliminate"
    /\ toel' = eliminate_round(nets_conj, LNIG)
    /\ pc' = "merge"
    /\ UNCHANGED <<gqn_vars, ge_vars, fn_vars, nqubit, net_depth, path_json, ds_time_reversal,
                   ds_conjugation_by_swap, err, edges_json, start_depth, depth,
                   GNIsom, gi, ci, LNIG, LNIG_type, Nets, nets_conj, pool_vars>>

\* for i in toel: if i: Nets[i] = False; then the False entries are dropped
merge(nets, marks) ==
    LET hit == {marks[k] : k \in DOMAIN marks} \ {-1, 0}
    IN  SelectSeq([i \in 1..Len(nets) |-> IF (i - 1) \in hit THEN False ELSE nets[i]],
                  Truthy)

Merge ==
    /\ pc = "merge"
    /\ Nets' = merge(Nets, toel)
    /\ pc' = "done"
    /\ UNCHANGED <<gqn_vars, ge_vars, fn_vars, nqubit, net_depth, path_json, ds_time_reversal,
                   ds_conjugation_by_swap, err, edges_json, start_depth, depth,
                   GNIsom, gi, ci, LNIG, LNIG_type, nets_conj, toel, pool_vars>>

Next ==
    \/ \E d \in 1..(MaxSize - 1), pj \in 0..(MaxSize - 1), tr \in BOOLEAN, cs \in BOOLEAN :
          Call(d, pj, tr, cs)
    \/ Loading
    \/ ForDepth
    \/ ForCandidate
    \/ Storing
    \/ OrderingRound
    \/ ConjugatesRound
    \/ EliminateRound
    \/ Merge

Spec == Init /\ [][Next]_vars

(***************************************************************************)
(* The same call with the three Pool.map rounds taken apart.  Pool(ncpu)   *)
(* starts ncpu worker processes; map pickles each argument, hands the      *)
(* tasks out in the order of the argument list to whichever worker is      *)
(* free, and a worker computes on its own copy and sends the result back   *)
(* with the index of the task.  map returns once every task has been       *)
(* answered, the results in the order of the arguments.                    *)
(***************************************************************************)
\* a pool has 1..MaxCpu worker processes
MaxCpu == 2

\* the calls with the rounds taken apart have 3..MaxQubitsPool qubits and
\* nqubit + net_depth <= MaxPoolSize
MaxQubitsPool == 4

MaxPoolSize == 6

\* the argument list of the round unique2net is about to start
round_tasks ==
    CASE pc = "ordering" ->
           [i \in 1..Len(LNIG) |-> [fn |-> "edges_to_nets_uperm",
                                    args |-> <<edges(LNIG[i]), nqubit>>]]
      [] pc = "conjugates" ->
           [i \in 1..Len(Nets) |-> [fn |-> "net_equiv_conj", args |-> <<Nets[i], i - 1>>]]
      [] pc = "eliminate" ->
           [k \in 1..Len(nets_conj) |-> [fn |-> "toel_conj", args |-> <<nets_conj[k], LNIG>>]]

\* what a worker computes for one task, from the copy it received
helper(task) ==
    CASE task.fn = "edges_to_nets_uperm" -> edges_to_nets_uperm(task.args[1], task.args[2])
      [] task.fn = "net_equiv_conj" -> net_equiv_conj(task.args[1], task.args[2])
      [] task.fn = "toel_conj" -> toel_conj(task.args[1], task.args[2])

\* the result of task i is stored in the order it arrived, not under i
store_result_on_arrival(res, i, r) == res @@ ((Cardinality(DOMAIN res) + 1) :> r)

\* the result of task i is stored under its index
store_result(res, i, r) == res @@ (i :> r)

\* what map returns: the results in the order of the arguments
map_results == [i \in 1..Len(tasks) |-> results[i]]

InitPool ==
    /\ nqubit \in 3..MaxQubitsPool
    /\ pc = "idle"
    /\ err = "none"
    /\ u2n_idle
    /\ gqn_idle
    /\ ge_idle
    /\ fn_idle
    /\ ncpu \in 1..MaxCpu
    /\ pool_closed

CallPool(d, pj, tr, cs) ==
    /\ nqubit + d <= MaxPoolSize
    /\ Call(d, pj, tr, cs)

\* P = Pool(opt['ncpu']); P.map(helper, [...]) is entered: the argument list
\* is built in the parent, where G.edges() of a loaded list of edges raises
StartRound ==
    /\ pc \in {"ordering", "conjugates", "eliminate"}
    /\ next_task = 0
    /\ IF pc = "ordering" /\ LNIG_type = "list" /\ Len(LNIG) > 0
       THEN /\ Raise("AttributeError")
            /\ UNCHANGED <<tasks, next_task>>
       ELSE /\ tasks' = round_tasks
            /\ next_task' = 1
            /\ UNCHANGED <<pc, err>>
    /\ UNCHANGED <<nqubit, u2n_vars, gqn_vars, ge_vars, fn_vars, ncpu, running, results>>

\* a free worker takes the next task of the queue
Dispatch ==
    /\ next_task >= 1
    /\ next_task <= Len(tasks)
    /\ Cardinality(running) < ncpu
    /\ running' = running \cup {next_task}
    /\ next_task' = next_task + 1
    /\ UNCHANGED <<nqubit, pc, err, u2n_vars, gqn_vars, ge_vars, fn_vars, ncpu, tasks, results>>

\* the worker computing task i sends its result back
Complete(i) ==
    /\ i \in running
    /\ running' = running \ {i}
    /\ results' = store_result(results, i, helper(tasks[i]))
    /\ UNCHANGED <<nqubit, pc, err, u2n_vars, gqn_vars, ge_vars, fn_vars, ncpu, tasks,
                   next_task>>

\* map returns, and the parent goes on alone up to the next Pool.map
Return ==
    /\ next_task > Len(tasks)
    /\ running = {}
    /\ CASE pc = "ordering" ->
              /\ Nets' = Flatten(map_results)
              /\ pc' = "conjugates"
              /\ UNCHANGED <<nets_conj, toel>>
         [] pc = "conjugates" ->
              /\ nets_conj' = SelectSeq(map_results, LAMBDA x : x.nets # {})
              /\ pc' = "eliminate"
              /\ UNCHANGED <<Nets, toel>>
         [] pc = "eliminate" ->
              /\ toel' = map_results
              /\ pc' = "merge"
              /\ UNCHANGED <<Nets, nets_conj>>
    /\ tasks' = <<>>
    /\ next_task' = 0
    /\ results' = <<>>
    /\ UNCHANGED <<gqn_vars, ge_vars, fn_vars, nqubit, net_depth, path_json, ds_time_reversal,
                   ds_conjugation_by_swap, err, edges_json, start_depth, depth,
                   GNIsom, gi, ci, LNIG, LNIG_type, ncpu, running>>

NextPool ==
    \/ \E d \in 1..(MaxPoolSize - 1), pj \in 0..(MaxPoolSize - 1), tr \in BOOLEAN,
          cs \in BOOLEAN : CallPool(d, pj, tr, cs)
    \/ Loading
    \/ ForDepth
    \/ ForCandidate
    \/ Storing
    \/ StartRound
    \/ Dispatch
    \/ \E i \in running : Complete(i)
    \/ Return
    \/ Merge

SpecPool == InitPool /\ [][NextPool]_vars

(***************************************************************************)
(* A whole call without a resume file, as one computation: the loops of    *)
(* list_non_iso_graphs from one edge up to depth D >= 2, then the rounds   *)
(* of unique2net.  It is built from the operators the actions use.         *)
(***************************************************************************)
RECURSIVE for_candidates(_, _, _, _, _)
for_candidates(previous, cph, accepted, g, c) ==
    IF g > Len(previous) \/ Len(cph) = 0 THEN accepted
    ELSE for_candidates(previous, cph, try_candidate(accepted, previous[g], cph[c]),
                        IF c < Len(cph) THEN g ELSE g + 1,
                        IF c < Len(cph) THEN c + 1 ELSE 1)

RECURSIVE for_depths(_, _, _, _)
for_depths(graphs, cph, d, D) ==
    IF d > D THEN graphs
    ELSE for_depths(for_candidates(graphs, cph, <<>>, 1, 1), cph, d + 1, D)

direct_graphs(nq, D) ==
    for_depths(<<MultiGraph(<<combinations2(nq)[1]>>)>>, combinations2(nq), 2, D)

networks_of(graphs, nq) ==
    merge(ordering_round(graphs, nq),
          eliminate_round(conjugates_round(ordering_round(graphs, nq)), graphs))

direct_unique2net(nq, D) == networks_of(direct_graphs(nq, D), nq)

(***************************************************************************)
(* The same calls in a working directory that already holds a record: the  *)
(* edges.json that unique2net(3, 2) stored.  path_json is a path, and the  *)
(* code opens whatever file it names, for any nqubit of the call.          *)
(***************************************************************************)
RecordOfDepth2 ==
    [saved |-> TRUE, depth |-> 2, list_edges |-> dump_edges(direct_graphs(3, 2))]

InitRecord ==
    /\ nqubit \in 0..(MaxSize - 1)
    /\ pc = "idle"
    /\ err = "none"
    /\ net_depth = 0
    /\ path_json = 0
    /\ ds_time_reversal = FALSE
    /\ ds_conjugation_by_swap = TRUE
    /\ edges_json = RecordOfDepth2
    /\ start_depth = 0
    /\ depth = 0
    /\ GNIsom = EmptyGNIsom
    /\ gi = 0
    /\ ci = 0
    /\ LNIG = <<>>
    /\ LNIG_type = "none"
    /\ Nets = <<>>
    /\ nets_conj = <<>>
    /\ toel = <<>>
    /\ gqn_idle
    /\ ge_idle
    /\ fn_idle
    /\ ncpu = 1
    /\ pool_closed

SpecRecord == InitRecord /\ [][Next]_vars

(***************************************************************************)
(* Vocabulary of the properties.                                           *)
(***************************************************************************)
Returned == pc = "done"
Ended    == pc \in {"done", "error"}

\* a run of four or more consecutive identical gates
HasRunOfFour(net) ==
    \E i \in 1..(Len(net) - 3) :
        net[i] = net[i + 1] /\ net[i] = net[i + 2] /\ net[i] = net[i + 3]

\* the qubits a gate acts on, and the gate on the qubits f maps them to
QubitsOf(g, nq) == {k \in 0..(nq - 1) : (g \div Pow2(k)) % 2 = 1}

RECURSIVE SumPow2(_)
SumPow2(S) == IF S = {} THEN 0
              ELSE LET k == CHOOSE x \in S : TRUE IN Pow2(k) + SumPow2(S \ {k})

RelabelGate(g, f, nq) == SumPow2({f[k] : k \in QubitsOf(g, nq)})

QubitPermutations(nq) ==
    {f \in [0..(nq - 1) -> 0..(nq - 1)] : \A a, b \in 0..(nq - 1) : f[a] = f[b] => a = b}

\* b is a under one qubit permutation applied to every gate
Relabelled(a, b, nq) ==
    /\ Len(a) = Len(b)
    /\ \E f \in QubitPermutations(nq) :
          \A i \in 1..Len(a) : RelabelGate(a[i], f, nq) = b[i]

Gates(nq) == {Pow2(e[1]) + Pow2(e[2]) : e \in Range(combinations2(nq))}

AllNetworks(nq, d) == [1..d -> Gates(nq)]

Count(s, x) == Cardinality({i \in DOMAIN s : s[i] = x})

SameMultiset(s, t) == \A x \in Range(s) \cup Range(t) : Count(s, x) = Count(t, x)

(***************************************************************************)
(* GraphQNet.py.  The graph of an instance is a networkx MultiGraph whose   *)
(* edges carry the attribute 'ordering': nodes in insertion order, and the *)
(* weighted edges <<u, v, ordering>> in insertion order, so that the key k *)
(* of an edge between u and v is its rank among the edges between them.    *)
(***************************************************************************)
\* the instances compared have 2..MaxQubitsGQN qubits
MaxQubitsGQN == 3

\* and networks of depth 1..MaxDepthGQN
MaxDepthGQN == 4

\* GraphQNet.net_to_edges; bitop.pos_of_ones is get_pos_ones
net_to_edges(netgates) == [i \in 1..Len(netgates) |-> get_pos_ones(netgates[i])]

\* the nodes after add_weighted_edges_from(wedges)
edge_nodes(wedges) ==
    Dedup(Flatten([i \in 1..Len(wedges) |-> <<wedges[i][1], wedges[i][2]>>]))

\* the nodes after add_weighted_edges_from(wedges) and add_nodes_from(range(nq))
graph_nodes(wedges, nq) == Dedup(edge_nodes(wedges) \o range(nq))

\* wedges of set_graph: the edges of the gates with their positions
weighted_edges(netgates) ==
    LET e == net_to_edges(netgates)
    IN  [i \in 1..Len(e) |-> <<e[i][1], e[i][2], i - 1>>]

\* set_graph raises ValueError: len(self.graph.nodes()) > self.nqubit, tested
\* before the nodes of range(nqubit) are added
set_graph_raises(nq, netgates) == Len(edge_nodes(weighted_edges(netgates))) > nq

\* self.graph when set_graph has raised: the edges and their nodes only
graph_when_raised(netgates) ==
    [nodes |-> edge_nodes(weighted_edges(netgates)), wedges |-> weighted_edges(netgates)]

set_graph(nq, netgates) ==
    LET wedges == weighted_edges(netgates)
    IN  [nodes |-> graph_nodes(wedges, nq), wedges |-> wedges]

\* G.number_of_edges(u, v)
number_of_edges(G, u, v) ==
    Cardinality({i \in DOMAIN G.wedges : {G.wedges[i][1], G.wedges[i][2]} = {u, v}})

\* G[u][v]: key -> attributes; entry k + 1 is the 'ordering' of the edge of key k
keydict(G, u, v) ==
    LET between == SelectSeq(G.wedges, LAMBDA w : {w[1], w[2]} = {u, v})
    IN  [k \in 1..Len(between) |-> between[k][3]]

\* GraphQNet.__compare_edges: G1[0]['ordering'] == G2[0]['ordering']
compare_edges(G1, G2) == G1[1] = G2[1]

\* nx.is_isomorphic(G1, G2, edge_match=compare_edges) on MultiGraphs: a
\* bijection of the nodes that keeps the number of edges of every pair and
\* satisfies edge_match on every adjacent pair
is_isomorphic_edge_match(G1, G2) ==
    LET N1 == Range(G1.nodes)
        N2 == Range(G2.nodes)
    IN  /\ Cardinality(N1) = Cardinality(N2)
        /\ Len(G1.wedges) = Len(G2.wedges)
        /\ \E f \in [N1 -> N2] :
              /\ \A a, b \in N1 : a # b => f[a] # f[b]
              /\ \A a, b \in N1 :
                    /\ number_of_edges(G1, a, b) = number_of_edges(G2, f[a], f[b])
                    /\ number_of_edges(G1, a, b) > 0 =>
                          compare_edges(keydict(G1, a, b), keydict(G2, f[a], f[b]))

\* GraphQNet(nqubit, netgates) after __init__
GraphQNet(nq, netgates) ==
    [nqubit |-> nq, netgates |-> netgates, depth |-> Len(netgates),
     graph |-> set_graph(nq, netgates)]

GraphQNet_is_isomorphic_to(self, GQN) == is_isomorphic_edge_match(self.graph, GQN.graph)

InitIso ==
    /\ nqubit \in 2..MaxQubitsGQN
    /\ pc = "idle"
    /\ err = "none"
    /\ u2n_idle
    /\ gqn_idle
    /\ ge_idle
    /\ fn_idle
    /\ ncpu = 1
    /\ pool_closed

\* two instances are made from networks of the same depth over nqubit qubits
NewGraphQNets ==
    /\ pc = "idle"
    /\ \E d \in 1..MaxDepthGQN : \E netA, netB \in AllNetworks(nqubit, d) :
          IF set_graph_raises(nqubit, netA) \/ set_graph_raises(nqubit, netB)
          THEN /\ Raise("ValueError")
               /\ UNCHANGED <<gqn_self, gqn_other>>
          ELSE /\ gqn_self' = GraphQNet(nqubit, netA)
               /\ gqn_other' = GraphQNet(nqubit, netB)
               /\ pc' = "constructed"
               /\ err' = err
    /\ UNCHANGED <<nqubit, answer, u2n_vars, ge_vars, fn_vars, pool_vars>>

\* gqn_self.is_isomorphic_to(gqn_other)
IsIsomorphicTo ==
    /\ pc = "constructed"
    /\ answer' = GraphQNet_is_isomorphic_to(gqn_self, gqn_other)
    /\ pc' = "compared"
    /\ UNCHANGED <<nqubit, err, gqn_self, gqn_other, u2n_vars, ge_vars, fn_vars, pool_vars>>

NextIso ==
    \/ NewGraphQNets
    \/ IsIsomorphicTo

SpecIso == InitIso /\ [][NextIso]_vars

(***************************************************************************)
(* GraphQNet.py: one instance, its constructor and the two methods that    *)
(* change its network.  MultiGraph.add_edge(u_for_edge, v_for_edge,        *)
(* key=None, **attr) needs the two ends of the edge as two arguments.      *)
(***************************************************************************)
InitGQN ==
    /\ nqubit \in 2..MaxQubitsGQN
    /\ pc = "idle"
    /\ err = "none"
    /\ u2n_idle
    /\ gqn_idle
    /\ ge_idle
    /\ fn_idle
    /\ ncpu = 1
    /\ pool_closed

\* GraphQNet(nqubit, netgates) on a network over nqubit qubits
Construct ==
    /\ pc = "idle"
    /\ \E d \in 1..(MaxSize - 1 - nqubit) : \E netgates \in AllNetworks(nqubit, d) :
          /\ call' = [fn |-> "GraphQNet", netgates |-> netgates]
          /\ IF set_graph_raises(nqubit, netgates)
             THEN /\ Raise("ValueError")
                  /\ UNCHANGED gqn_self
             ELSE /\ gqn_self' = GraphQNet(nqubit, netgates)
                  /\ pc' = "object"
                  /\ err' = err
    /\ UNCHANGED <<nqubit, gqn_other, answer, result, u2n_vars, ge_vars, pool_vars>>

\* self.set_netgates(new_netgates): netgates and depth are assigned before
\* set_graph, and self.graph before set_graph raises
SetNetgates ==
    /\ pc = "object"
    /\ \E d \in 0..(MaxSize - 1 - nqubit) : \E new_netgates \in AllNetworks(nqubit, d) :
          /\ call' = [fn |-> "set_netgates", new_netgates |-> new_netgates,
                      before |-> gqn_self]
          /\ IF set_graph_raises(nqubit, new_netgates)
             THEN /\ Raise("ValueError")
                  /\ gqn_self' = [gqn_self EXCEPT !.netgates = new_netgates,
                                                  !.depth = Len(new_netgates),
                                                  !.graph = graph_when_raised(new_netgates)]
             ELSE /\ gqn_self' = GraphQNet(nqubit, new_netgates)
                  /\ UNCHANGED <<pc, err>>
    /\ UNCHANGED <<nqubit, gqn_other, answer, result, u2n_vars, ge_vars, pool_vars>>

\* self.add_ordered_edge(edge): the first statement passes the one tuple
\* (*edge, self.depth) to add_edge, which raises TypeError for the missing
\* v_for_edge; depth and netgates are not reached
AddOrderedEdge ==
    /\ pc = "object"
    /\ \E k \in 1..Len(combinations2(nqubit)) :
          call' = [fn |-> "add_ordered_edge", edge |-> combinations2(nqubit)[k],
                   before |-> gqn_self]
    /\ Raise("TypeError")
    /\ UNCHANGED <<nqubit, gqn_vars, result, u2n_vars, ge_vars, pool_vars>>

NextGQN ==
    \/ Construct
    \/ SetNetgates
    \/ AddOrderedEdge

SpecGQN == InitGQN /\ [][NextGQN]_vars

\* GraphQNet(nqubit, netgates) on a network whose gates may act on the qubit
\* of index nqubit, one more than the instance has
ConstructAny ==
    /\ pc = "idle"
    /\ \E d \in 1..MaxDepthGQN : \E netgates \in AllNetworks(nqubit + 1, d) :
          /\ call' = [fn |-> "GraphQNet", netgates |-> netgates]
          /\ IF set_graph_raises(nqubit, netgates)
             THEN /\ Raise("ValueError")
                  /\ UNCHANGED gqn_self
             ELSE /\ gqn_self' = GraphQNet(nqubit, netgates)
                  /\ pc' = "object"
                  /\ err' = err
    /\ UNCHANGED <<nqubit, gqn_other, answer, result, u2n_vars, ge_vars, pool_vars>>

SpecRange == InitGQN /\ [][ConstructAny]_vars

(***************************************************************************)
(* gates_elimination.py.  Its getbit, swapbits and get_pos_ones are the    *)
(* ones of unique2net.py.  An eliminated entry of a list is False.         *)
(***************************************************************************)
\* get_unique_2gates_networks is called with 1..MaxQubitsGE qubits and with
\* nqubit + network_length <= MaxSize
MaxQubitsGE == 4

\* bin(a).count('1')
RECURSIVE count_ones(_)
count_ones(a) == IF a = 0 THEN 0 ELSE (a % 2) + count_ones(a \div 2)

\* all_2g(nqubit), in the order the set is iterated: ascending, for the small
\* integers of up to five qubits
all_2g(nq) == SelectSeq([i \in 1..Pow2(nq) |-> i - 1], LAMBDA a : count_ones(a) = 2)

\* list(product(gates2, repeat=netsize))
RECURSIVE all_2g_networks(_, _)
all_2g_networks(netsize, gates2) ==
    IF netsize = 0 THEN << <<>> >>
    ELSE LET rest == all_2g_networks(netsize - 1, gates2)
             tail == SubSeq(rest, 1, Len(rest))
         IN  FlattenFrom([i \in 1..Len(gates2) |-> PrefixAll(gates2[i], tail)],
                         1, Len(gates2))

\* x in gate_list
In(x, gate_list) == \E k \in DOMAIN gate_list : gate_list[k] = x

\* the filter that ends each elimination: [g for g in gate_list if g]
filter_out(gate_list) == SelectSeq(gate_list, Truthy)

\* eliminate3, the inner loop over the gates of net: count reaches 4
RECURSIVE eliminate3_loop(_, _, _, _)
eliminate3_loop(net, k, count, gate) ==
    IF k > Len(net) THEN FALSE
    ELSE LET c == IF net[k] = gate THEN count + 1 ELSE 1
         IN  IF c > 3 THEN TRUE ELSE eliminate3_loop(net, k + 1, c, net[k])

\* eliminate3: is gate_list[i] set to False
eliminate3_hit(net) == eliminate3_loop(net, 1, 0, net[1])

\* net2 of eliminate_relabelling: every gate with the bits of swap exchanged
swapped_net(swap, net) == [k \in 1..Len(net) |-> swapbits(swap[1], swap[2], net[k])]

\* eliminate_relabelling: is gate_list[i] set to False for this swap
relabelling_hit(swap, net, gate_list) ==
    /\ Truthy(net)
    /\ In(SubSeq(swapped_net(swap, net), 1, Len(net)), gate_list)

\* eliminate_time_reversal: is gate_list[i] set to False
time_reversal_hit(net, gate_list) ==
    In(SubSeq(Reverse(net), 1, Len(net)), gate_list)

\* mnet of eliminate_conjugation_by_swapping for the sandwich net[j] g net[j+2]
\* (j counted from 1): g has the two bits of net[j] exchanged
sandwich_swapped(net, j) ==
    LET poss == get_pos_ones(net[j])
    IN  [net EXCEPT ![j + 1] = swapbits(poss[1], poss[2], net[j + 1])]

\* eliminate_conjugation_by_swapping: is gate_list[i] set to False
conjugation_hit(net, gate_list) ==
    \E j \in 1..(Len(net) - 2) :
        /\ net[j] = net[j + 2]
        /\ In(sandwich_swapped(net, j), gate_list)

\* a variant that deletes the entry, del gate_list[i], while the loop goes on
\* to index i + 1
mark_by_deletion(gate_list, i, hit) ==
    IF hit THEN SubSeq(RemoveAt(gate_list, i), 1, Len(gate_list) - 1) ELSE gate_list

\* gate_list[i] = False when hit
mark(gate_list, i, hit) == IF hit THEN [gate_list EXCEPT ![i] = False] ELSE gate_list

InitElim ==
    /\ nqubit \in 1..MaxQubitsGE
    /\ pc = "idle"
    /\ err = "none"
    /\ u2n_idle
    /\ gqn_idle
    /\ ge_idle
    /\ fn_idle
    /\ ncpu = 1
    /\ pool_closed

\* get_unique_2gates_networks(nqubit, length) up to the first print(len(L))
get_unique_2gates_networks(length) ==
    /\ pc = "idle"
    /\ nqubit + length <= MaxSize
    /\ network_length' = length
    /\ L' = all_2g_networks(length, all_2g(nqubit))
    /\ stdout' = <<Len(L')>>
    /\ iteration' = 1
    /\ i_swap' = 1
    /\ i_net' = 1
    /\ pc' = "eliminate3"
    /\ UNCHANGED <<nqubit, err, L_first, u2n_vars, gqn_vars, fn_vars, pool_vars>>

\* eliminate3(L): one turn of its loop, or its return; net[0] of an empty
\* network raises
Eliminate3 ==
    /\ pc = "eliminate3"
    /\ IF i_net > Len(L)
       THEN /\ L' = filter_out(L)
            /\ i_net' = 1
            /\ pc' = "eliminate_relabelling"
            /\ err' = err
       ELSE IF Len(L[i_net]) = 0
       THEN /\ Raise("IndexError")
            /\ UNCHANGED <<L, i_net>>
       ELSE /\ L' = mark(L, i_net, eliminate3_hit(L[i_net]))
            /\ i_net' = i_net + 1
            /\ UNCHANGED <<pc, err>>
    /\ UNCHANGED <<nqubit, network_length, L_first, stdout, iteration, i_swap,
                   u2n_vars, gqn_vars, fn_vars, pool_vars>>

\* eliminate_relabelling(nqubit, L): one turn of the inner loop, the next
\* swap, or its return
EliminateRelabelling ==
    /\ pc = "eliminate_relabelling"
    /\ LET lswaps == combinations2(nqubit)
       IN  IF i_swap > Len(lswaps)
           THEN /\ L' = filter_out(L)
                /\ i_swap' = 1
                /\ i_net' = 1
                /\ pc' = "eliminate_time_reversal"
           ELSE IF i_net > Len(L)
           THEN /\ i_swap' = i_swap + 1
                /\ i_net' = 1
                /\ UNCHANGED <<L, pc>>
           ELSE /\ L' = mark(L, i_net, relabelling_hit(lswaps[i_swap], L[i_net], L))
                /\ i_net' = i_net + 1
                /\ UNCHANGED <<i_swap, pc>>
    /\ UNCHANGED <<nqubit, err, network_length, L_first, stdout, iteration,
                   u2n_vars, gqn_vars, fn_vars, pool_vars>>

\* eliminate_time_reversal(L): one turn of its loop, or its return
EliminateTimeReversal ==
    /\ pc = "eliminate_time_reversal"
    /\ IF i_net > Len(L)
       THEN /\ L' = filter_out(L)
            /\ i_net' = 1
            /\ pc' = "eliminate_conjugation_by_swapping"
       ELSE /\ L' = mark(L, i_net, time_reversal_hit(L[i_net], L))
            /\ i_net' = i_net + 1
            /\ UNCHANGED pc
    /\ UNCHANGED <<nqubit, err, network_length, L_first, stdout, iteration, i_swap,
                   u2n_vars, gqn_vars, fn_vars, pool_vars>>

\* eliminate_conjugation_by_swapping(L): one turn of its outer loop, or its
\* return followed by print(len(L)) and the second iteration or return L
EliminateConjugationBySwapping ==
    /\ pc = "eliminate_conjugation_by_swapping"
    /\ IF i_net > Len(L)
       THEN /\ L' = filter_out(L)
            /\ i_net' = 1
            /\ stdout' = Append(stdout, Len(L'))
            /\ IF iteration = 1
               THEN /\ iteration' = 2
                    /\ L_first' = L'
                    /\ pc' = "eliminate3"
               ELSE /\ pc' = "returned"
                    /\ UNCHANGED <<iteration, L_first>>
       ELSE /\ L' = mark(L, i_net, conjugation_hit(L[i_net], L))
            /\ i_net' = i_net + 1
            /\ UNCHANGED <<pc, stdout, iteration, L_first>>
    /\ UNCHANGED <<nqubit, err, network_length, i_swap, u2n_vars, gqn_vars, fn_vars, pool_vars>>

NextElim ==
    \/ \E length \in 0..(MaxSize - 1) : get_unique_2gates_networks(length)
    \/ Eliminate3
    \/ EliminateRelabelling
    \/ EliminateTimeReversal
    \/ EliminateConjugationBySwapping

SpecElim == InitElim /\ [][NextElim]_vars

(***************************************************************************)
(* The functions of the three files called on their own, one call per      *)
(* step: call holds the function's name and arguments, result what each    *)
(* implementation returned.                                                *)
(***************************************************************************)
\* the functions are called with 0..MaxQubitsFn qubits
MaxQubitsFn == 4

\* bitop.shuffle: the loop of shuffle_bits over cls.bit_at
RECURSIVE bitop_shuffle_loop(_, _, _)
bitop_shuffle_loop(num, permutation, i) ==
    IF i = 0 THEN 0
    ELSE BitOr(bitop_shuffle_loop(num, permutation, i - 1),
               ((num \div Pow2(permutation[i])) % 2) * Pow2(i - 1))

bitop_shuffle(num, permutation) == bitop_shuffle_loop(num, permutation, Len(permutation))

\* no program runs: the functions are called from an interpreter
InitFn ==
    /\ nqubit \in 0..MaxQubitsFn
    /\ pc = "idle"
    /\ err = "none"
    /\ u2n_idle
    /\ gqn_idle
    /\ ge_idle
    /\ fn_idle
    /\ ncpu = 1
    /\ pool_closed

\* shuffle_bits(num, permutation) and bitop.shuffle(num, permutation)
Shuffle ==
    /\ pc = "idle"
    /\ \E num \in 0..(Pow2(nqubit) - 1), permutation \in Range(permutations(range(nqubit))) :
          /\ call' = [fn |-> "shuffle", num |-> num, permutation |-> permutation]
          /\ result' = [fn |-> "shuffle",
                        shuffle_bits |-> shuffle_bits(num, permutation),
                        bitop_shuffle |-> bitop_shuffle(num, permutation)]
    /\ pc' = "returned"
    /\ UNCHANGED <<nqubit, err, u2n_vars, gqn_vars, ge_vars, pool_vars>>

SpecShuffle == InitFn /\ [][Shuffle]_vars

\* equiv_bit_permutations(net, nqubit) on a network of nqubit qubits
EquivBitPermutations ==
    /\ pc = "idle"
    /\ \E d \in 0..(MaxSize - nqubit) :
          \E net \in AllNetworks(nqubit, d) :
             /\ call' = [fn |-> "equiv_bit_permutations", net |-> net]
             /\ result' = [fn |-> "equiv_bit_permutations",
                           value |-> equiv_bit_permutations(net, nqubit)]
    /\ pc' = "returned"
    /\ UNCHANGED <<nqubit, err, u2n_vars, gqn_vars, ge_vars, pool_vars>>

SpecOrbit == InitFn /\ [][EquivBitPermutations]_vars

\* equiv_conjugation_by_swapping(net), and the same function on each network
\* it returned
EquivConjugationBySwapping ==
    /\ pc = "idle"
    /\ \E d \in 0..(MaxSize - nqubit) :
          \E net \in AllNetworks(nqubit, d) :
             /\ call' = [fn |-> "equiv_conjugation_by_swapping", net |-> net]
             /\ result' = [fn |-> "equiv_conjugation_by_swapping",
                           value |-> equiv_conjugation_by_swapping(net),
                           again |-> [v \in equiv_conjugation_by_swapping(net) |->
                                         equiv_conjugation_by_swapping(v)]]
    /\ pc' = "returned"
    /\ UNCHANGED <<nqubit, err, u2n_vars, gqn_vars, ge_vars, pool_vars>>

SpecConjugation == InitFn /\ [][EquivConjugationBySwapping]_vars

\* equiv_set_net(net, nqubit, **opt).  The returned Python set holds tuples
\* and integers: networks are its tuples, gates its integers.  The networks
\* of each criterion are unpacked into S_equiv; so is the one tuple that
\* equiv_time_reversal returns, whose elements are the gates of net
equiv_set_net(net, nq, opt) ==
    [networks |-> (IF opt.identity THEN {net} ELSE {})
                  \cup (IF opt.ds_bit_permutation THEN equiv_bit_permutations(net, nq) ELSE {})
                  \cup (IF opt.ds_conjugation_by_swap THEN equiv_conjugation_by_swapping(net)
                        ELSE {}),
     gates    |-> IF opt.ds_time_reversal THEN Range(equiv_time_reversal(net)) ELSE {}]

\* the keyword options of equiv_set_net; every one defaults to True
Options ==
    [ds_bit_permutation : BOOLEAN, ds_conjugation_by_swap : BOOLEAN,
     ds_time_reversal : BOOLEAN, identity : BOOLEAN]

EquivSetNet ==
    /\ pc = "idle"
    /\ \E d \in 0..(MaxSize - nqubit), opt \in Options :
          \E net \in AllNetworks(nqubit, d) :
             /\ call' = [fn |-> "equiv_set_net", net |-> net, opt |-> opt]
             /\ result' = [fn |-> "equiv_set_net", value |-> equiv_set_net(net, nqubit, opt)]
    /\ pc' = "returned"
    /\ UNCHANGED <<nqubit, err, u2n_vars, gqn_vars, ge_vars, pool_vars>>

SpecSetNet == InitFn /\ [][EquivSetNet]_vars

\* nqubit + depth of a network given to the run validators is at most MaxRunSize
MaxRunSize == 9

\* itertools.groupby(netgates): the maximal runs of equal gates, in order
RECURSIVE groupby(_)
groupby(s) ==
    IF Len(s) = 0 THEN <<>>
    ELSE LET rest == groupby(Tail(s))
         IN  IF Len(rest) > 0 /\ rest[1][1] = s[1]
             THEN << <<s[1]>> \o rest[1] >> \o Tail(rest)
             ELSE << <<s[1]>> >> \o rest

\* GraphQNet.more_three_con_edges() of an instance with these netgates
more_three_con_edges(netgates) ==
    \E k \in DOMAIN groupby(netgates) : Len(groupby(netgates)[k]) > 3

\* eliminate3: gate_list after the first i turns of its loop
RECURSIVE eliminate3_marks(_, _)
eliminate3_marks(gate_list, i) ==
    IF i = 0 THEN gate_list
    ELSE mark(eliminate3_marks(gate_list, i - 1), i, eliminate3_hit(gate_list[i]))

eliminate3(gate_list) == filter_out(eliminate3_marks(gate_list, Len(gate_list)))

\* the three run validators on the networks of one depth that begin with the
\* same gates, a slice of product(gates2, repeat=netsize) in its order
RunValidators ==
    /\ pc = "idle"
    /\ \E d \in 1..(MaxRunSize - nqubit) :
          \E prefix \in AllNetworks(nqubit, d - 1) :
             LET gates2    == all_2g(nqubit)
                 gate_list == [k \in 1..Len(gates2) |-> Append(prefix, gates2[k])]
             IN  /\ call' = [fn |-> "run_validators", gate_list |-> gate_list]
                 /\ result' = [fn |-> "run_validators",
                               iseqiv_occurrence |->
                                   [k \in 1..Len(gates2) |-> iseqiv_occurrence(gate_list[k])],
                               more_three_con_edges |->
                                   [k \in 1..Len(gates2) |-> more_three_con_edges(gate_list[k])],
                               eliminate3 |-> eliminate3(gate_list)]
    /\ pc' = "returned"
    /\ UNCHANGED <<nqubit, err, u2n_vars, gqn_vars, ge_vars, pool_vars>>

SpecRuns == InitFn /\ [][RunValidators]_vars

\* the run validator is called on networks of 0..MaxQubitsValid qubits
MaxQubitsValid == 3

InitValid ==
    /\ nqubit \in 0..MaxQubitsValid
    /\ pc = "idle"
    /\ err = "none"
    /\ u2n_idle
    /\ gqn_idle
    /\ ge_idle
    /\ fn_idle
    /\ ncpu = 1
    /\ pool_closed

\* __iseqiv_occurrence on a non-empty network, on equiv_time_reversal of it
\* and on every member of its equiv_bit_permutations and of its
\* equiv_conjugation_by_swapping
ValidatorOnEquivalents ==
    /\ pc = "idle"
    /\ \E d \in 1..(MaxRunSize - nqubit) :
          \E net \in AllNetworks(nqubit, d) :
             /\ call' = [fn |-> "iseqiv_occurrence", net |-> net]
             /\ result' = [fn |-> "iseqiv_occurrence",
                           net |-> iseqiv_occurrence(net),
                           time_reversal |-> iseqiv_occurrence(equiv_time_reversal(net)),
                           bit_permutations |->
                               [m \in equiv_bit_permutations(net, nqubit) |->
                                   iseqiv_occurrence(m)],
                           conjugation_by_swapping |->
                               [m \in equiv_conjugation_by_swapping(net) |->
                                   iseqiv_occurrence(m)]]
    /\ pc' = "returned"
    /\ UNCHANGED <<nqubit, err, u2n_vars, gqn_vars, ge_vars, pool_vars>>

SpecValid == InitValid /\ [][ValidatorOnEquivalents]_vars

(***************************************************************************)
(* Properties of unique2net, checked under Spec.                           *)
(***************************************************************************)
\* C1 (non-redundancy): in the list unique2net returns, for nqubit >= 2, no two
\* entries at distinct indices are equal or images of each other under a qubit
\* permutation applied to every gate.
C1_NonRedundancy ==
    (Returned /\ nqubit >= 2) =>
        \A i, j \in DOMAIN Nets :
            i # j => (Nets[i] # Nets[j] /\ ~ Relabelled(Nets[i], Nets[j], nqubit))

\* C2 (completeness): for nqubit >= 2, every network of the target depth without
\* a run of more than three identical gates has exactly one entry of the
\* returned list that is its image under a qubit relabeling.
C2_Completeness ==
    (Returned /\ nqubit >= 2) =>
        \A net \in AllNetworks(nqubit, net_depth) :
            ~ HasRunOfFour(net) =>
                Cardinality({i \in DOMAIN Nets : Relabelled(net, Nets[i], nqubit)}) = 1

\* C3 (validity): no network unique2net returns has a run of four or more
\* identical gates, (3,3,3,3) is never returned, and no graph accepted at any
\* depth of list_non_iso_graphs has four parallel edges (so that no ordering of
\* its edges has such a run).
C3_Validity ==
    /\ Returned =>
          \A i \in DOMAIN Nets : ~ HasRunOfFour(Nets[i]) /\ Nets[i] # <<3, 3, 3, 3>>
    /\ \A d \in DOMAIN GNIsom : \A k \in DOMAIN GNIsom[d] :
          /\ ~ HasRunOfFour(edges_to_net(edges(GNIsom[d][k])))
          /\ \A a, b \in 0..(nqubit - 1) : Mult(GNIsom[d][k], a, b) <= 3

\* a call to depth 4 or more returned a non-empty list: candidates with four
\* parallel edges were generated and rejected on the way
C3_Witness == Returned /\ net_depth >= 4 /\ Len(Nets) > 0

\* C5 (depth 1): a call with net_depth = 1, nqubit >= 2 and no resume file ends
\* normally, with the one-element canonical set {(3,)}.
C5_DepthOne ==
    (Ended /\ nqubit >= 2 /\ net_depth = 1 /\ path_json = 0) =>
        (Returned /\ Len(LNIG) = 1 /\ Nets = << <<3>> >>)

\* C6 (swap-conjugation collapse): with ds_conjugation_by_swap enabled the
\* returned list holds no two distinct networks a, b such that a swap-conjugate
\* of a is b up to a qubit relabeling.
C6_SwapCollapse ==
    (Returned /\ ds_conjugation_by_swap) =>
        \A i, j \in DOMAIN Nets :
            Nets[i] # Nets[j] =>
                \A c \in equiv_conjugation_by_swapping(Nets[i]) :
                    ~ Relabelled(c, Nets[j], nqubit)

\* C7 (time-reversal collapse): with ds_time_reversal=True the returned list
\* holds no two distinct networks a, b such that a reversed is b up to a qubit
\* relabeling.
C7_TimeReversalCollapse ==
    (Returned /\ ds_time_reversal) =>
        \A i, j \in DOMAIN Nets :
            Nets[i] # Nets[j] => ~ Relabelled(Reverse(Nets[i]), Nets[j], nqubit)

\* C8 (resume equivalence): a call that resumes from the record of a depth
\* d < D and continues to D ends normally with the same multiset of networks
\* as a call that enumerates directly to D.
C8_ResumeEquivalence ==
    (Ended /\ path_json # 0 /\ path_json < net_depth) =>
        (Returned /\ SameMultiset(Nets, direct_unique2net(nqubit, net_depth)))

\* C9 (resume no-op): a call that resumes from a record deeper than the target
\* depth expands no candidate, hands the loaded set back unchanged and does
\* not raise.
C9_ResumeNoOp ==
    (path_json # 0 /\ path_json > net_depth /\ pc # "list_non_iso_graphs") =>
        /\ GNIsom = EmptyGNIsom
        /\ edges_json.depth = path_json
        /\ LNIG = edges_json.list_edges
        /\ pc # "error"

(***************************************************************************)
(* Properties of GraphQNet, checked under SpecIso.                         *)
(***************************************************************************)
\* C4 (equivalence test correctness): for networks A and B of equal depth
\* over nqubit qubits, GraphQNet.is_isomorphic_to(A, B) is true iff B is A
\* with one qubit permutation applied to every gate, and it agrees with the
\* orbit-membership test B in {A} union equiv_bit_permutations(A, nqubit).
C4_EquivalenceTest ==
    pc = "compared" =>
        /\ answer = Relabelled(gqn_self.netgates, gqn_other.netgates, nqubit)
        /\ answer = (gqn_other.netgates \in
                        {gqn_self.netgates}
                            \cup equiv_bit_permutations(gqn_self.netgates, nqubit))

(***************************************************************************)
(* Properties of gates_elimination, checked under SpecElim.                *)
(***************************************************************************)
\* C10 (idempotence of reduction): when get_unique_2gates_networks returns,
\* the second run of eliminate3, eliminate_relabelling, eliminate_time_reversal
\* and eliminate_conjugation_by_swapping has returned the list the first run
\* returned: the second iteration removes nothing.
C10_Idempotence ==
    pc = "returned" => (L = L_first /\ stdout[3] = stdout[2])

\* a call has returned a non-empty list from which the first run of the four
\* eliminations had removed networks
C10_Witness ==
    pc = "returned" /\ Len(L) > 0 /\ stdout[2] < stdout[1] /\ network_length >= 3

(***************************************************************************)
(* Properties of the depth loop of list_non_iso_graphs, checked under      *)
(* Spec.                                                                   *)
(***************************************************************************)
\* the pairs of qubits
QubitPairs(nq) == {pr \in (0..(nq - 1)) \X (0..(nq - 1)) : pr[1] < pr[2]}

\* the multigraphs of k edges on the qubits, each as the list of its edges
\* in ascending order, with at most three parallel edges between two qubits
Multigraphs(nq, k) ==
    {H \in [1..k -> QubitPairs(nq)] :
        /\ \A i \in 1..(k - 1) :
              \/ H[i][1] < H[i + 1][1]
              \/ H[i][1] = H[i + 1][1] /\ H[i][2] <= H[i + 1][2]
        /\ \A i \in 1..(k - 3) : H[i] # H[i + 3]}

\* the number of edges of the list G between the qubits a and b
EdgesBetween(G, a, b) == Cardinality({i \in DOMAIN G : {G[i][1], G[i][2]} = {a, b}})

\* how many edges of G join each pair of qubits
Multiplicities(G, nq) == [pr \in QubitPairs(nq) |-> EdgesBetween(G, pr[1], pr[2])]

\* the multiplicities of the graphs a permutation of the qubits carries onto G
IsomorphicTo(G, nq) ==
    {[pr \in QubitPairs(nq) |-> EdgesBetween(G, f[pr[1]], f[pr[2]])] :
        f \in QubitPermutations(nq)}

\* C22: at every depth k the loop of list_non_iso_graphs has reached, from
\* the start depth on, every graph of GNIsom[k] has k edges and at most three
\* between two qubits; once the loop has finished depth k, no two graphs of
\* GNIsom[k] (and so of the list at any moment before) are isomorphic, and
\* every multigraph of k edges on the nqubit qubits with at most three
\* parallel edges is isomorphic to one of GNIsom[k]
C22_DepthLoop ==
    /\ \A k \in DOMAIN GNIsom :
          (start_depth >= 1 /\ start_depth <= k /\ k <= depth) =>
              \A i \in DOMAIN GNIsom[k] :
                  /\ Len(GNIsom[k][i]) = k
                  /\ \A pr \in QubitPairs(nqubit) :
                        EdgesBetween(GNIsom[k][i], pr[1], pr[2]) <= 3
    /\ (pc = "for_depth" /\ depth >= 1) =>
          /\ \A i, j \in DOMAIN GNIsom[depth] :
                i < j => Multiplicities(GNIsom[depth][j], nqubit)
                            \notin IsomorphicTo(GNIsom[depth][i], nqubit)
          /\ {Multiplicities(H, nqubit) : H \in Multigraphs(nqubit, depth)}
                \subseteq UNION {IsomorphicTo(GNIsom[depth][i], nqubit) :
                                    i \in DOMAIN GNIsom[depth]}

\* the loop has finished depth 4 on three qubits after resuming from a record
C22_Witness ==
    /\ pc = "for_depth"
    /\ nqubit = 3
    /\ depth = 4
    /\ path_json # 0
    /\ Len(GNIsom[4]) >= 3

(***************************************************************************)
(* Properties of gates_elimination reaching beyond one run, checked under  *)
(* SpecElim.                                                               *)
(***************************************************************************)
\* the permutation of the qubits that exchanges qubit a and qubit b
Transposition(a, b, nq) ==
    [k \in 0..(nq - 1) |-> IF k = a THEN b ELSE IF k = b THEN a ELSE k]

\* the networks one generator away from net: one exchange of two qubits in
\* every gate, the reversal, or one gate between two equal gates conjugated
\* by the swap of their qubits
OneGeneratorFrom(net, nq) ==
    {[i \in 1..Len(net) |-> RelabelGate(net[i], Transposition(a, b, nq), nq)] :
        a \in 0..(nq - 1), b \in 0..(nq - 1)}
    \cup {Reverse(net)}
    \cup {[net EXCEPT ![j] = RelabelGate(net[j], Transposition(
                                 CHOOSE a \in QubitsOf(net[j - 1], nq) : TRUE,
                                 CHOOSE b \in QubitsOf(net[j - 1], nq) :
                                     b # (CHOOSE a \in QubitsOf(net[j - 1], nq) : TRUE),
                                 nq), nq)] :
            j \in {k \in 2..(Len(net) - 1) : net[k - 1] = net[k + 1]}}

\* the networks reachable from those of S by the generators
RECURSIVE ReachableFrom(_, _)
ReachableFrom(S, nq) ==
    LET more == S \cup UNION {OneGeneratorFrom(net, nq) : net \in S}
    IN  IF more = S THEN S ELSE ReachableFrom(more, nq)

\* C21: for nqubit >= 2 and length >= 1 the list get_unique_2gates_networks
\* returns is not empty (when a network of that length without a run of more
\* than three identical gates exists) and holds, for every such network, a
\* network the generators reach from it; and eliminate_time_reversal
\* removes a network only when its reversal is another entry of the list, so
\* that one of the two is kept
C21_KeepsRepresentative ==
    /\ []((pc = "returned" /\ nqubit >= 2 /\ network_length >= 1) =>
            /\ (\E net \in AllNetworks(nqubit, network_length) : ~ HasRunOfFour(net)) =>
                  Len(L) > 0
            /\ \A net \in AllNetworks(nqubit, network_length) :
                  ~ HasRunOfFour(net) => ReachableFrom({net}, nqubit) \cap Range(L) # {})
    /\ [][(pc = "eliminate_time_reversal" /\ i_net <= Len(L) /\ L[i_net] # L'[i_net]) =>
            \E k \in DOMAIN L : k # i_net /\ L[k] = Reverse(L[i_net])]_vars

(***************************************************************************)
(* Properties of unique2net in a directory that holds a record, checked    *)
(* under SpecRecord.                                                       *)
(***************************************************************************)
\* C11 (configuration errors): a call with nqubit < 2, with or without a
\* resume record, ends in an error before list_non_iso_graphs stores or
\* returns anything: it never reaches the rounds of unique2net, never
\* returns a list, and leaves the stored record as it was.
C11_ConfigurationError ==
    nqubit < 2 =>
        /\ pc \notin {"ordering", "conjugates", "eliminate", "merge", "done"}
        /\ LNIG_type = "none"
        /\ edges_json \in {NoFile, RecordOfDepth2}

(***************************************************************************)
(* Properties of the deduplication of unique2net.                          *)
(***************************************************************************)
\* C15: within each class of orderings of a graph that are relabelings of
\* each other, the network kept by __edges_to_nets_uperm is the one that
\* comes first in the order permutations() generates them
C15_FirstRepresentative ==
    pc = "conjugates" =>
        \A g \in DOMAIN LNIG :
            LET GL == permutations(edges_to_net(edges(LNIG[g])))
            IN  \A k \in DOMAIN GL :
                    GL[k] \in Range(Nets) =>
                        \A earlier \in 1..(k - 1) :
                            Relabelled(GL[earlier], GL[k], nqubit) => GL[earlier] = GL[k]

(***************************************************************************)
(* Properties of the parallel rounds of unique2net.                        *)
(***************************************************************************)
\* C17: whatever ncpu and the order in which the workers answer, unique2net
\* returns the list the three rounds give when each maps its arguments in
\* order; Nets and LNIG do not change while a round is under way, and Nets
\* changes only in the parent while no worker is computing: when the first
\* round has returned, in the merge after the last round, and when a new
\* call starts
C17_ParallelRounds ==
    /\ [](Returned =>
            Nets = merge(ordering_round(LNIG, nqubit),
                         eliminate_round(conjugates_round(ordering_round(LNIG, nqubit)),
                                         LNIG)))
    /\ [][(next_task >= 1 /\ next_task' >= 1) => (Nets' = Nets /\ LNIG' = LNIG)]_vars
    /\ [][Nets' # Nets =>
            /\ running = {}
            /\ \/ pc = "merge"
               \/ pc = "ordering" /\ next_task > Len(tasks)
               \/ pc' = "list_non_iso_graphs"]_vars

\* a task has been answered while an earlier one is still being computed
C17_Witness ==
    /\ ncpu = 2
    /\ pc = "conjugates"
    /\ Len(tasks) = 5
    /\ \E i \in running : \E j \in DOMAIN results : j > i /\ results[j].nets # {}

(***************************************************************************)
(* Properties of the functions called on their own.                        *)
(***************************************************************************)
\* C12: for every num < 2^nqubit and every permutation of 0..nqubit-1, the
\* result of shuffle_bits and of bitop.shuffle has a set bit exactly at the
\* positions permutation[k] of the set bits k of num
C12_ApplyPermutation ==
    call.fn = "shuffle" =>
        LET image == {call.permutation[k + 1] : k \in QubitsOf(call.num, nqubit)}
        IN  /\ QubitsOf(result.shuffle_bits, nqubit) = image
            /\ result.shuffle_bits < Pow2(nqubit)
            /\ result.bitop_shuffle = result.shuffle_bits

\* C13: equiv_bit_permutations(net, nqubit) never contains net; together with
\* net it is exactly the set of the images of net under one permutation of
\* the qubits applied to every gate; every member has the depth of net and
\* gates of exactly two set bits
C13_Orbit ==
    call.fn = "equiv_bit_permutations" =>
        /\ call.net \notin result.value
        /\ result.value \cup {call.net} =
              {[i \in 1..Len(call.net) |-> RelabelGate(call.net[i], f, nqubit)] :
                  f \in QubitPermutations(nqubit)}
        /\ \A member \in result.value :
              /\ Len(member) = Len(call.net)
              /\ \A i \in 1..Len(member) :
                    /\ member[i] < Pow2(nqubit)
                    /\ Cardinality(QubitsOf(member[i], nqubit)) = 2

C13_Witness ==
    /\ call.fn = "equiv_bit_permutations"
    /\ nqubit = 4
    /\ Len(call.net) = 3
    /\ Cardinality(result.value) = 23

\* the permutation of the qubits that exchanges the two qubits of gate g
ExchangeOf(g, nq) ==
    [k \in 0..(nq - 1) |->
        IF k \in QubitsOf(g, nq) THEN CHOOSE m \in QubitsOf(g, nq) : m # k ELSE k]

\* C14: equiv_conjugation_by_swapping(net) is exactly the set of the networks
\* other than net obtained, for one interior position j whose two neighbours
\* are the same gate, by exchanging in net[j] the two qubits of that gate; it
\* is empty below depth 3, and net is a swap-conjugate of each member
C14_SwapConjugates ==
    call.fn = "equiv_conjugation_by_swapping" =>
        LET net == call.net
            interior == {j \in 2..(Len(net) - 1) : net[j - 1] = net[j + 1]}
        IN  /\ result.value =
                  {[net EXCEPT ![j] = RelabelGate(net[j], ExchangeOf(net[j - 1], nqubit), nqubit)] :
                      j \in interior} \ {net}
            /\ Len(net) < 3 => result.value = {}
            /\ \A v \in result.value : net \in result.again[v]

C14_Witness ==
    /\ call.fn = "equiv_conjugation_by_swapping"
    /\ nqubit = 4
    /\ Len(call.net) = 3
    /\ Cardinality(result.value) = 1
    /\ \E v \in result.value : Cardinality(QubitsOf(v[2], nqubit) \cap QubitsOf(call.net[2], nqubit)) = 1

\* C16: on every non-empty network __iseqiv_occurrence and
\* more_three_con_edges are true exactly when the network holds four
\* consecutive identical gates, and eliminate3 drops exactly those networks
\* of its list and keeps the others in order
C16_RunValidator ==
    call.fn = "run_validators" =>
        /\ \A k \in DOMAIN call.gate_list :
              /\ result.iseqiv_occurrence[k] = HasRunOfFour(call.gate_list[k])
              /\ result.more_three_con_edges[k] = HasRunOfFour(call.gate_list[k])
        /\ result.eliminate3 = SelectSeq(call.gate_list, LAMBDA net : ~ HasRunOfFour(net))

C16_Witness ==
    /\ call.fn = "run_validators"
    /\ Len(call.gate_list) = 6
    /\ Len(call.gate_list[1]) = 5
    /\ Len(result.eliminate3) = 5
    /\ result.iseqiv_occurrence[3]
    /\ result.eliminate3[3] = call.gate_list[4]

\* C19: with the default options equiv_set_net(net, nqubit) holds networks
\* only, all of the depth of net and of two-bit gates, and among them net,
\* every image of net under a qubit permutation, every swap-conjugate and the
\* reversed network; without the identity and with the three criteria it
\* still holds the reversed network
C19_EquivSetNet ==
    call.fn = "equiv_set_net" =>
        LET net == call.net
            opt == call.opt
            S   == result.value
        IN  /\ (opt.ds_bit_permutation /\ opt.ds_conjugation_by_swap
                  /\ opt.ds_time_reversal /\ opt.identity) =>
                  /\ S.gates = {}
                  /\ \A member \in S.networks :
                        /\ Len(member) = Len(net)
                        /\ \A i \in 1..Len(member) : member[i] \in Gates(nqubit)
                  /\ net \in S.networks
                  /\ \A f \in QubitPermutations(nqubit) :
                        [i \in 1..Len(net) |-> RelabelGate(net[i], f, nqubit)] \in S.networks
                  /\ \A j \in 2..(Len(net) - 1) :
                        net[j - 1] = net[j + 1] =>
                            [net EXCEPT ![j] = RelabelGate(net[j], ExchangeOf(net[j - 1], nqubit),
                                                           nqubit)] \in S.networks
                  /\ Reverse(net) \in S.networks
            /\ (opt.ds_bit_permutation /\ opt.ds_conjugation_by_swap
                  /\ opt.ds_time_reversal /\ ~ opt.identity) =>
                  Reverse(net) \in S.networks

\* C23: __iseqiv_occurrence gives on the reversed network, on every image of
\* net under a qubit permutation and on every swap-conjugate of net the
\* answer it gives on net
C23_ValidityPreserved ==
    call.fn = "iseqiv_occurrence" =>
        /\ result.time_reversal = result.net
        /\ \A m \in DOMAIN result.bit_permutations : result.bit_permutations[m] = result.net
        /\ \A m \in DOMAIN result.conjugation_by_swapping :
              result.conjugation_by_swapping[m] = result.net

\* a network with four consecutive identical gates that has a swap-conjugate
\* and five other images under qubit permutations
C23_Witness ==
    /\ call.fn = "iseqiv_occurrence"
    /\ result.net
    /\ DOMAIN result.conjugation_by_swapping # {}
    /\ Cardinality(DOMAIN result.bit_permutations) = 5
    /\ call.net # Reverse(call.net)

(***************************************************************************)
(* Properties of a GraphQNet instance.                                     *)
(***************************************************************************)
\* the graph with one edge per position of netgates, between the two qubits
\* of the gate and labelled with the position, on the nodes 0..nq-1
OneEdgePerPosition(self, nq) ==
    /\ Len(self.graph.wedges) = Len(self.netgates)
    /\ \A i \in 1..Len(self.netgates) :
          /\ {self.graph.wedges[i][1], self.graph.wedges[i][2]} = QubitsOf(self.netgates[i], nq)
          /\ self.graph.wedges[i][3] = i - 1

\* C18: every call of set_netgates and add_ordered_edge completes normally
\* and leaves depth = len(netgates) and a graph with exactly one edge per
\* position, joining the qubits of the gate and labelled with the position;
\* add_ordered_edge on depth d gives depth d + 1, the gate of the edge
\* appended to netgates and a new edge labelled d
C18_Consistency ==
    call.fn \in {"set_netgates", "add_ordered_edge"} =>
        /\ err = "none"
        /\ gqn_self.depth = Len(gqn_self.netgates)
        /\ OneEdgePerPosition(gqn_self, nqubit)
        /\ call.fn = "add_ordered_edge" =>
              /\ gqn_self.depth = call.before.depth + 1
              /\ gqn_self.netgates =
                    Append(call.before.netgates, Pow2(call.edge[1]) + Pow2(call.edge[2]))
              /\ gqn_self.graph.wedges[gqn_self.depth][3] = call.before.depth

\* C20: GraphQNet(nqubit, netgates) raises ValueError whenever a gate has a
\* set bit at a position >= nqubit; an instance that was constructed has the
\* nodes 0..nqubit-1 and no others, and gates on two qubits below nqubit
C20_GateRange ==
    call.fn = "GraphQNet" =>
        /\ (\E i \in DOMAIN call.netgates : call.netgates[i] >= Pow2(nqubit)) =>
              err = "ValueError"
        /\ pc = "object" =>
              /\ Range(gqn_self.graph.nodes) = 0..(nqubit - 1)
              /\ \A i \in DOMAIN gqn_self.netgates :
                    /\ gqn_self.netgates[i] < Pow2(nqubit)
                    /\ Cardinality(QubitsOf(gqn_self.netgates[i], nqubit)) = 2

=============================================================================
